---- MODULE Spec2Model ----
(***************************************************************************)
(* Workspace lifecycle of kubdev-auto-system: EnvironmentService           *)
(* (deploy / readiness poll / start / stop / restart / delete) on top of   *)
(* KubernetesService, for one EnvironmentInstance record and the platform  *)
(* objects its names refer to.                                             *)
(*                                                                         *)
(* Scheduling: every KubernetesService method is an `async def` around a   *)
(* blocking client call, so a handler runs without yielding until it       *)
(* reaches asyncio.sleep.  The only suspension points are the 30 s sleep   *)
(* of the readiness poll and the 10 s settle delay of restart; each piece  *)
(* between two suspension points is one action.                            *)
(***************************************************************************)
EXTENDS Integers, Sequences, FiniteSets, TLC

\* ---------------------------------------------------------------- bounds
\* readiness pollers that may be alive at once (the code has no cap)
MaxPollers == 2
\* restart_environment calls that may sit in the settle delay at once
MaxRestarts == 1

\* ------------------------------------------------------ program constants
\* _wait_for_deployment_ready(max_wait_time=300)
MaxWaitTime == 300
\* asyncio.sleep(30) between two status checks
PollInterval == 30
\* timedelta.seconds is the seconds component of the difference only
SecondsPerDay == 86400
\* pod_limit=5 passed by deploy_environment
PodLimit == 5
\* settings.ENVIRONMENT_TIMEOUT_HOURS
ENVIRONMENT_TIMEOUT_HOURS == 8

\* resource_limits a template can carry when deploy_environment reads it
\* (cpu in millicores, memory and storage in Gi); update_template may put
\* any value there between two deployments
LimitChoices ==
  { [cpu |-> 1000, memory |-> 2, storage |-> 10],
    [cpu |-> 500,  memory |-> 3, storage |-> 10] }

NoLimits == [cpu |-> 0, memory |-> 0, storage |-> 0]

VARIABLES
  env,             \* the EnvironmentInstance row
  templateExists,  \* the ProjectTemplate row the environment refers to
  plat,            \* platform objects under the names stored in the row
  pollers,         \* pollers[n]: live _wait_for_deployment_ready tasks that have slept n times
  restarts,        \* restart_environment calls inside asyncio.sleep(10)
  readySeen,       \* a poller has observed ready_replicas >= 1 since the last provisioning
  last,            \* the call that produced the current state and how it ended
  crs,             \* KubeDevEnvironment custom resources in the control namespace, by owner
  cluster,         \* per custom resource: its execution namespace and the scale of its workload
  resp             \* the last request to the workspace API and its answer

apiVars == <<crs, cluster, resp>>

svcVars == <<env, templateExists, plat, pollers, restarts, readySeen, last>>

vars == <<env, templateExists, plat, pollers, restarts, readySeen, last, crs, cluster, resp>>

\* ------------------------------------------------------------ data model
NoQuota == [exists |-> FALSE]

\* hard = {...} of create_resource_quota; requests.cpu is kept in tenths of
\* the unit of cpu_limit ("1000m" -> 500.0 -> 5000 tenths)
QuotaHard(lim) ==
  [ exists           |-> TRUE,
    limits_cpu       |-> lim.cpu,
    limits_memory    |-> lim.memory,
    requests_cpu_x10 |-> lim.cpu * 5,
    requests_memory  |-> lim.memory \div 2,
    requests_storage |-> lim.storage,
    pods             |-> PodLimit,
    services         |-> 5,
    persistentvolumeclaims |-> 3,
    secrets          |-> 10,
    configmaps       |-> 10 ]

\* a column that holds NULL
None == "None"

\* f"http://{ingress_host}", the address deploy_environment stores
IngressUrl == "http://env.kubdev.local"

\* url: access_url, None until a deploy stored IngressUrl
\* expires: expires_at is NULL ("unset"), later than the clock ("future") or
\* earlier than the clock ("past")
\* namespace: k8s_namespace, "user-1" (f"user-{id}") or "kubdev-users"
NoEnv ==
  [rec |-> "none", status |-> "none", msg |-> "", url |-> None, expires |-> "unset",
   namespace |-> "none"]

\* from: the phase stored in the row when the call began
Call(op, fault, result, at, lim, from) ==
  [op |-> op, fault |-> fault, result |-> result, at |-> at, lim |-> lim,
   from |-> from]

NPolls == MaxWaitTime \div PollInterval

\* sleep counts a poller can be recorded at
PollSlots == 0..(NPolls + 1)

PollerCount(p) ==
  LET RECURSIVE Sum(_)
      Sum(n) == IF n < 0 THEN 0 ELSE p[n] + Sum(n - 1)
  IN Sum(NPolls + 1)

\* ------------------------------------------------- KubernetesService calls
\* Each call takes the platform state and the call the platform fails
\* transiently (fault) and returns the new platform state, whether the
\* method returned (ok) and the exception text when it raised.

create_namespace(P, fault) ==
  IF fault = "namespace"
    THEN [plat |-> P, ok |-> FALSE, err |-> "Failed to create namespace"]
    ELSE [plat |-> [P EXCEPT !.ns = TRUE], ok |-> TRUE, err |-> ""]

\* create_resource_quota with the except-branch returning for every status
create_resource_quota_swallow(P, fault, lim) ==
  IF fault = "quota" \/ P.quota.exists
    THEN [plat |-> P, ok |-> TRUE, err |-> ""]
    ELSE [plat |-> [P EXCEPT !.quota = QuotaHard(lim)], ok |-> TRUE, err |-> ""]

\* create_resource_quota replacing an existing quota instead of keeping it
create_resource_quota_update(P, fault, lim) ==
  IF fault = "quota"
    THEN [plat |-> P, ok |-> FALSE, err |-> "Failed to create resource quota"]
    ELSE [plat |-> [P EXCEPT !.quota = QuotaHard(lim)], ok |-> TRUE, err |-> ""]

\* A 409 answer is swallowed: the existing object is left as it is.
create_resource_quota(P, fault, lim) ==
  IF fault = "quota"
    THEN [plat |-> P, ok |-> FALSE, err |-> "Failed to create resource quota"]
    ELSE IF P.quota.exists
      THEN [plat |-> P, ok |-> TRUE, err |-> ""]
      ELSE [plat |-> [P EXCEPT !.quota = QuotaHard(lim)], ok |-> TRUE, err |-> ""]

\* Every ApiException, the 409 of an existing deployment included, is raised.
create_deployment(P, fault) ==
  IF fault = "deployment" \/ P.dep
    THEN [plat |-> P, ok |-> FALSE, err |-> "Failed to create deployment"]
    ELSE [plat |-> [P EXCEPT !.dep = TRUE, !.ready = FALSE], ok |-> TRUE, err |-> ""]

\* create_service with the except-branch returning instead of raising
create_service_swallow(P, fault) ==
  IF fault = "service" \/ P.svc
    THEN [plat |-> P, ok |-> TRUE, err |-> ""]
    ELSE [plat |-> [P EXCEPT !.svc = TRUE], ok |-> TRUE, err |-> ""]

create_service(P, fault) ==
  IF fault = "service" \/ P.svc
    THEN [plat |-> P, ok |-> FALSE, err |-> "Failed to create service"]
    ELSE [plat |-> [P EXCEPT !.svc = TRUE], ok |-> TRUE, err |-> ""]

create_ingress(P, fault) ==
  IF fault = "ingress" \/ P.ing
    THEN [plat |-> P, ok |-> FALSE, err |-> "Failed to create ingress"]
    ELSE [plat |-> [P EXCEPT !.ing = TRUE], ok |-> TRUE, err |-> ""]

\* delete_deployment without the 404 test
delete_deployment_strict(P, fault) ==
  IF fault = "delete_deployment" \/ ~P.dep
    THEN [plat |-> P, ok |-> FALSE, err |-> "Failed to delete deployment"]
    ELSE [plat |-> [P EXCEPT !.dep = FALSE, !.ready = FALSE], ok |-> TRUE, err |-> ""]

\* A 404 answer (the object is already absent) is swallowed.
delete_deployment(P, fault) ==
  IF fault = "delete_deployment"
    THEN [plat |-> P, ok |-> FALSE, err |-> "Failed to delete deployment"]
    ELSE IF ~P.dep
      THEN [plat |-> P, ok |-> TRUE, err |-> ""]
      ELSE [plat |-> [P EXCEPT !.dep = FALSE, !.ready = FALSE], ok |-> TRUE, err |-> ""]

delete_service(P, fault) ==
  IF fault = "delete_service"
    THEN [plat |-> P, ok |-> FALSE, err |-> "Failed to delete service"]
    ELSE IF ~P.svc
      THEN [plat |-> P, ok |-> TRUE, err |-> ""]
      ELSE [plat |-> [P EXCEPT !.svc = FALSE], ok |-> TRUE, err |-> ""]

NoPlatform ==
  [ns |-> FALSE, quota |-> NoQuota, dep |-> FALSE, ready |-> FALSE,
   svc |-> FALSE, ing |-> FALSE]

\* k8s_client.delete_namespace: a 404 is swallowed, anything else re-raised;
\* the platform removes a namespace together with every object inside it
delete_namespace(P, fault) ==
  IF fault = "delete_namespace"
    THEN [plat |-> P, ok |-> FALSE, err |-> "ApiException"]
    ELSE IF ~P.ns
      THEN [plat |-> P, ok |-> TRUE, err |-> ""]
      ELSE [plat |-> NoPlatform, ok |-> TRUE, err |-> ""]

\* "raise" for any other ApiException, "not_found" for a 404, else the
\* ready_replicas the deployment reports
get_deployment_status(P, fault) ==
  IF fault = "status" THEN [ok |-> FALSE, found |-> FALSE, ready_replicas |-> 0,
                            err |-> "Failed to get deployment status"]
  ELSE IF ~P.dep THEN [ok |-> TRUE, found |-> FALSE, ready_replicas |-> 0, err |-> ""]
  ELSE [ok |-> TRUE, found |-> TRUE,
        ready_replicas |-> IF P.ready THEN 1 ELSE 0, err |-> ""]

\* ------------------------------------------------------ EnvironmentService

\* except-block of deploy_environment putting the row back to PENDING
deploy_failed_pending(E, err) ==
  [E EXCEPT !.status = "pending", !.msg = "Deployment failed: " \o err]

\* except-block of deploy_environment
deploy_failed(E, err) ==
  [E EXCEPT !.status = "error", !.msg = "Deployment failed: " \o err]

\* the block after the last create call of deploy_environment
\* utcnow() + timedelta(hours=ENVIRONMENT_TIMEOUT_HOURS) against the clock
expires_after_timeout ==
  IF ENVIRONMENT_TIMEOUT_HOURS > 0 THEN "future" ELSE "past"

\* the success block with the expiry assigned unconditionally
deploy_succeeded_resets_expiry(E) ==
  [E EXCEPT !.url = IngressUrl, !.status = "running", !.msg = "Environment is ready",
            !.expires = expires_after_timeout]

deploy_succeeded(E) ==
  [E EXCEPT !.url = IngressUrl, !.status = "running", !.msg = "Environment is ready",
            !.expires = IF @ = "unset" THEN expires_after_timeout ELSE @]

Outcome(E, P, raised, err, at, spawn) ==
  [env |-> E, plat |-> P, raised |-> raised, err |-> err, at |-> at, spawn |-> spawn]

\* deploy_environment for a row that exists
deploy_environment(E, P, tmpl, fault, lim) ==
  IF ~tmpl THEN Outcome(E, P, TRUE, "Template not found", "template", FALSE)
  ELSE
    LET r1 == create_namespace(P, fault) IN
    IF ~r1.ok THEN Outcome(deploy_failed(E, r1.err), r1.plat, TRUE, r1.err, "namespace", FALSE) ELSE
    LET r2 == create_resource_quota(r1.plat, fault, lim) IN
    IF ~r2.ok THEN Outcome(deploy_failed(E, r2.err), r2.plat, TRUE, r2.err, "quota", FALSE) ELSE
    LET r3 == create_deployment(r2.plat, fault) IN
    IF ~r3.ok THEN Outcome(deploy_failed(E, r3.err), r3.plat, TRUE, r3.err, "deployment", FALSE) ELSE
    LET r4 == create_service(r3.plat, fault) IN
    IF ~r4.ok THEN Outcome(deploy_failed(E, r4.err), r4.plat, TRUE, r4.err, "service", FALSE) ELSE
    LET r5 == create_ingress(r4.plat, fault) IN
    IF ~r5.ok THEN Outcome(deploy_failed(E, r5.err), r5.plat, TRUE, r5.err, "ingress", FALSE) ELSE
    Outcome(deploy_succeeded(E), r5.plat, FALSE, "", "none", TRUE)

\* except-block of start_environment
start_failed(E, err) ==
  [E EXCEPT !.status = "error", !.msg = "Failed to start: " \o err]

\* start_environment that starts a readiness poll after it found the
\* deployment and marked the row RUNNING
start_environment_polls(E, P, tmpl, fault, lim) ==
  IF E.status = "running" THEN Outcome(E, P, FALSE, "", "already_running", FALSE)
  ELSE
    LET st == get_deployment_status(P, fault) IN
    IF ~st.ok THEN Outcome(start_failed(E, st.err), P, TRUE, st.err, "status", FALSE)
    ELSE IF ~st.found
      THEN LET d == deploy_environment(E, P, tmpl, fault, lim) IN
           IF d.raised
             THEN Outcome(start_failed(d.env, d.err), d.plat, TRUE, d.err, d.at, FALSE)
             ELSE d
      ELSE Outcome([E EXCEPT !.status = "running"], P, FALSE, "", "none", TRUE)

start_environment(E, P, tmpl, fault, lim) ==
  IF E.status = "running" THEN Outcome(E, P, FALSE, "", "already_running", FALSE)
  ELSE
    LET st == get_deployment_status(P, fault) IN
    IF ~st.ok THEN Outcome(start_failed(E, st.err), P, TRUE, st.err, "status", FALSE)
    ELSE IF ~st.found
      THEN LET d == deploy_environment(E, P, tmpl, fault, lim) IN
           IF d.raised
             THEN Outcome(start_failed(d.env, d.err), d.plat, TRUE, d.err, d.at, FALSE)
             ELSE d
      ELSE Outcome([E EXCEPT !.status = "running"], P, FALSE, "", "none", FALSE)

stop_environment(E, P, fault) ==
  LET r == delete_deployment(P, fault) IN
  IF ~r.ok
    THEN Outcome([E EXCEPT !.status = "error", !.msg = "Failed to stop: " \o r.err],
                 r.plat, TRUE, r.err, "delete_deployment", FALSE)
    ELSE Outcome([E EXCEPT !.status = "stopped", !.msg = "Environment stopped"],
                 r.plat, FALSE, "", "none", FALSE)

\* k8s_service_name is never empty for a row made by create_regular_user
delete_environment(E, P, fault) ==
  LET r1 == delete_deployment(P, fault) IN
  IF ~r1.ok THEN Outcome(E, r1.plat, TRUE, r1.err, "delete_deployment", FALSE) ELSE
  LET r2 == delete_service(r1.plat, fault) IN
  IF ~r2.ok THEN Outcome(E, r2.plat, TRUE, r2.err, "delete_service", FALSE) ELSE
  Outcome([NoEnv EXCEPT !.rec = "deleted"], r2.plat, FALSE, "", "none", FALSE)

\* one pass of the while loop of _wait_for_deployment_ready for a task that
\* has slept n times; writes reach the row only while it exists
\* elapsed time measured from a start_time that is re-read on every pass
poll_elapsed_restarting(n) == 0

poll_elapsed(n) == (n * PollInterval) % SecondsPerDay

poll_check_failed(E, err) ==
  [E EXCEPT !.status = "error", !.msg = "Health check failed: " \o err]

poll_ready(E) ==
  [E EXCEPT !.status = "running", !.msg = "Environment is running and ready"]

poll_timeout(E) ==
  [E EXCEPT !.status = "error",
            !.msg = "Deployment timeout - environment did not become ready"]

\* a poller whose write lands although the row is gone
WriteRow_blind(E, F) == F

WriteRow(E, F) == IF E.rec = "live" THEN F ELSE E

\* result: "gone" | "check_failed" | "ready" | "waiting" | "timeout"
wait_for_deployment_ready(E, P, n, fault) ==
  IF n = 0 /\ E.rec # "live" THEN [env |-> E, result |-> "gone"]
  ELSE IF poll_elapsed(n) < MaxWaitTime
    THEN LET st == get_deployment_status(P, fault) IN
         IF ~st.ok THEN [env |-> WriteRow(E, poll_check_failed(E, st.err)),
                         result |-> "check_failed"]
         ELSE IF st.ready_replicas >= 1
           THEN [env |-> WriteRow(E, poll_ready(E)), result |-> "ready"]
           ELSE [env |-> E, result |-> "waiting"]
    ELSE [env |-> WriteRow(E, poll_timeout(E)), result |-> "timeout"]

\* a query that looks at expires_at only
cleanup_selected_any_phase(E) ==
  E.rec = "live" /\ E.expires = "past"

\* the query of cleanup_expired_environments: expires_at < utcnow() and
\* status in ('running', 'stopped'); a NULL expires_at never compares true
cleanup_selected(E) ==
  E.rec = "live" /\ E.expires = "past" /\ E.status \in {"running", "stopped"}

\* cleanup_expired_environments for the one row; an exception of
\* delete_environment is caught and reported as "failed"
cleanup_expired_environments(E, P, dry_run, fault) ==
  IF ~cleanup_selected(E) THEN [env |-> E, plat |-> P, result |-> "none"]
  ELSE IF dry_run THEN [env |-> E, plat |-> P, result |-> "would_delete"]
  ELSE LET d == delete_environment(E, P, fault) IN
       [env |-> d.env, plat |-> d.plat,
        result |-> IF d.raised THEN "failed" ELSE "success"]

\* ------------------------------------------------- workspace API (app.py)
\* DEV_API_KEYS: the three callers get_current_user can return
Users == {"admin", "dev", "test"}

get_current_user(u) ==
  [ id   |-> IF u = "admin" THEN 1 ELSE IF u = "dev" THEN 2 ELSE 3,
    name |-> u,
    role |-> u ]

\* every workspace request in the model uses the one payload name "ws"
\* create_workspace: env_name = f"env-{user['id']}-{payload.name}"
IdWid(u) ==
  IF u = "admin" THEN "env-1-ws" ELSE IF u = "dev" THEN "env-2-ws" ELSE "env-3-ws"

\* admin_batch_create: env_name = f"env-{uname}-{payload.name}"
NameWid(u) ==
  IF u = "admin" THEN "env-admin-ws"
  ELSE IF u = "dev" THEN "env-dev-ws" ELSE "env-test-ws"

Wids == {IdWid(u) : u \in Users} \cup {NameWid(u) : u \in Users}

\* a custom resource: spec.userName and whether status.namespace is set
NoCr == [exists |-> FALSE, userName |-> "", ns |-> FALSE]

\* the execution namespace of a custom resource and the replica count of
\* its workload ide-{wid}
NoExec == [objs |-> NoPlatform, replicas |-> 0]

NoResp ==
  [op |-> "init", wid |-> "", user |-> "", code |-> 0, flag |-> FALSE,
   users |-> <<>>, created |-> <<>>, failed |-> <<>>]

Answered(op, wid, user, code, flag) ==
  [op |-> op, wid |-> wid, user |-> user, code |-> code, flag |-> flag,
   users |-> <<>>, created |-> <<>>, failed |-> <<>>]

\* create_namespaced_custom_object: 409 when the name is taken; the new
\* resource has no status yet
create_kubedev_environment(C, wid, uname, fault) ==
  IF fault \/ C[wid].exists
    THEN [crs |-> C, ok |-> FALSE]
    ELSE [crs |-> [C EXCEPT ![wid] = [exists |-> TRUE, userName |-> uname, ns |-> FALSE]],
          ok |-> TRUE]

\* get_namespaced_custom_object raises on a missing resource
get_kubedev_environment(C, wid) ==
  IF ~C[wid].exists
    THEN [ok |-> FALSE, cr |-> NoCr]
    ELSE [ok |-> TRUE, cr |-> C[wid]]

delete_kubedev_environment(C, wid, fault) ==
  IF fault = "delete_cr" \/ ~C[wid].exists
    THEN [crs |-> C, ok |-> FALSE]
    ELSE [crs |-> [C EXCEPT ![wid] = NoCr], ok |-> TRUE]

\* both patch attempts fail when the deployment is absent
scale_deployment(K, wid, replicas, fault) ==
  IF fault = "scale" \/ ~K[wid].objs.dep
    THEN [cluster |-> K, ok |-> FALSE]
    ELSE [cluster |-> [K EXCEPT ![wid].replicas = replicas], ok |-> TRUE]

\* the ownership test shared by stop_workspace, start_workspace and
\* delete_workspace: spec.get('userName') != user['name'] -> 403
is_owner(cr, user) == cr.userName = user.name

ApiOut(C, K, code) == [crs |-> C, cluster |-> K, code |-> code]

\* stop_workspace / start_workspace that compare the owner after scaling
scale_workspace_late_check(C, K, wid, user, replicas, fault) ==
  LET g == get_kubedev_environment(C, wid) IN
  IF ~g.ok THEN ApiOut(C, K, 500)
  ELSE IF ~g.cr.ns THEN ApiOut(C, K, 409)
  ELSE LET r == scale_deployment(K, wid, replicas, fault) IN
       IF ~r.ok THEN ApiOut(C, K, 500)
       ELSE IF ~is_owner(g.cr, user) THEN ApiOut(C, r.cluster, 403)
       ELSE ApiOut(C, r.cluster, 200)

\* stop_workspace (replicas = 0) and start_workspace (replicas = 1); an
\* exception that is not an HTTPException is answered with 500
scale_workspace(C, K, wid, user, replicas, fault) ==
  LET g == get_kubedev_environment(C, wid) IN
  IF ~g.ok THEN ApiOut(C, K, 500)
  ELSE IF ~is_owner(g.cr, user) THEN ApiOut(C, K, 403)
  ELSE IF ~g.cr.ns THEN ApiOut(C, K, 409)
  ELSE LET r == scale_deployment(K, wid, replicas, fault) IN
       IF ~r.ok THEN ApiOut(C, K, 500) ELSE ApiOut(C, r.cluster, 200)

stop_workspace(C, K, wid, user, fault) == scale_workspace(C, K, wid, user, 0, fault)

start_workspace(C, K, wid, user, fault) == scale_workspace(C, K, wid, user, 1, fault)

\* delete_workspace that deletes the namespace whenever status.namespace is set
delete_workspace_always_ns(C, K, wid, user, delete_namespace_first, fault) ==
  LET g == get_kubedev_environment(C, wid) IN
  IF ~g.ok THEN ApiOut(C, K, 500)
  ELSE IF ~is_owner(g.cr, user) THEN ApiOut(C, K, 403)
  ELSE
    LET n == IF g.cr.ns
               THEN delete_namespace(K[wid].objs, fault)
               ELSE [plat |-> K[wid].objs, ok |-> TRUE, err |-> ""]
        K1 == IF n.plat = K[wid].objs THEN K
              ELSE [K EXCEPT ![wid] = [objs |-> n.plat, replicas |-> 0]]
    IN
    IF ~n.ok THEN ApiOut(C, K1, 500)
    ELSE LET r == delete_kubedev_environment(C, wid, fault) IN
         IF ~r.ok THEN ApiOut(C, K1, 500) ELSE ApiOut(r.crs, K1, 200)

delete_workspace(C, K, wid, user, delete_namespace_first, fault) ==
  LET g == get_kubedev_environment(C, wid) IN
  IF ~g.ok THEN ApiOut(C, K, 500)
  ELSE IF ~is_owner(g.cr, user) THEN ApiOut(C, K, 403)
  ELSE
    LET n == IF delete_namespace_first /\ g.cr.ns
               THEN delete_namespace(K[wid].objs, fault)
               ELSE [plat |-> K[wid].objs, ok |-> TRUE, err |-> ""]
        K1 == IF n.plat = K[wid].objs THEN K
              ELSE [K EXCEPT ![wid] = [objs |-> n.plat, replicas |-> 0]]
    IN
    IF ~n.ok THEN ApiOut(C, K1, 500)
    ELSE LET r == delete_kubedev_environment(C, wid, fault) IN
         IF ~r.ok THEN ApiOut(C, K1, 500) ELSE ApiOut(r.crs, K1, 200)

\* _ensure_admin
ensure_admin(user) == user.role = "admin"

RECURSIVE batch_loop(_, _, _, _, _, _)

\* a loop that records the first failure and leaves
batch_loop_abort(C, users, i, faults, created, failed) ==
  IF i > Len(users) THEN [crs |-> C, created |-> created, failed |-> failed]
  ELSE
    LET uname == users[i]
        r == create_kubedev_environment(C, NameWid(uname), uname, i \in faults)
    IN
    IF r.ok
      THEN batch_loop(r.crs, users, i + 1, faults, Append(created, NameWid(uname)), failed)
      ELSE [crs |-> C, created |-> created, failed |-> Append(failed, uname)]

\* the loop of admin_batch_create over payload.users from position i on;
\* faults: the positions whose create call the platform fails
batch_loop(C, users, i, faults, created, failed) ==
  IF i > Len(users) THEN [crs |-> C, created |-> created, failed |-> failed]
  ELSE
    LET uname == users[i]
        r == create_kubedev_environment(C, NameWid(uname), uname, i \in faults)
    IN
    IF r.ok
      THEN batch_loop(r.crs, users, i + 1, faults, Append(created, NameWid(uname)), failed)
      ELSE batch_loop(C, users, i + 1, faults, created, Append(failed, uname))

admin_batch_create(C, user, users, faults) ==
  IF ~ensure_admin(user)
    THEN [crs |-> C, code |-> 403, created |-> <<>>, failed |-> <<>>]
    ELSE LET b == batch_loop(C, users, 1, faults, <<>>, <<>>) IN
         [crs |-> b.crs, code |-> 200, created |-> b.created, failed |-> b.failed]

\* ------------------------------------------------------------------ state
DeployFaults == {"none", "namespace", "quota", "deployment", "service", "ingress"}
StartFaults  == DeployFaults \cup {"status"}
StopFaults   == {"none", "delete_deployment"}
DeleteFaults == {"none", "delete_deployment", "delete_service"}
PollFaults   == {"none", "status"}

Init ==
  /\ env = NoEnv
  /\ templateExists = TRUE
  /\ plat = NoPlatform
  /\ pollers = [n \in PollSlots |-> 0]
  /\ restarts = 0
  /\ readySeen = FALSE
  /\ last = Call("init", "none", "ok", "none", NoLimits, "none")
  /\ crs = [w \in Wids |-> NoCr]
  /\ cluster = [w \in Wids |-> NoExec]
  /\ resp = NoResp

Spawn(p) == [p EXCEPT ![0] = @ + 1]

\* the platform failure that met the call: a failure set for a step the call
\* did not get to has not happened
Met(fault, d) == IF d.raised /\ d.at = fault THEN fault ELSE "none"

\* the limits a call handed to create_resource_quota, if it got that far
QuotaArgs(d, lim) ==
  IF d.spawn \/ d.at \in {"quota", "deployment", "service", "ingress"}
    THEN lim ELSE NoLimits

\* the row create_regular_user adds and commits first
inserted_row ==
  [rec |-> "live", status |-> "pending", msg |-> "", url |-> None,
   expires |-> "unset", namespace |-> "user-1"]

\* the update create_regular_user commits after create_custom_object returned
crd_created(E) ==
  [E EXCEPT !.namespace = "kubdev-users", !.status = "creating"]

\* the update create_regular_user commits when create_custom_object raised
crd_failed(E) ==
  [E EXCEPT !.status = "error", !.msg = "CRD creation failed"]

\* create_regular_user: the row is stored as PENDING, then the custom
\* resource is created in the control namespace kubdev-users (which exists
\* whenever that call succeeds) and the row is re-pointed to it and set to
\* CREATING; when the call raises the row is set to ERROR and keeps the
\* per-user namespace, which nothing has created yet.  Both outcomes of the
\* custom-resource call are kept.
CreateRegularUser(crd_ok) ==
  /\ env.rec = "none"
  /\ templateExists
  /\ env' = IF crd_ok THEN crd_created(inserted_row) ELSE crd_failed(inserted_row)
  /\ plat' = IF crd_ok THEN [plat EXCEPT !.ns = TRUE] ELSE plat
  /\ last' = Call("create_regular_user", IF crd_ok THEN "none" ELSE "crd",
                  IF crd_ok THEN "ok" ELSE "error", "none", NoLimits, "pending")
  /\ UNCHANGED <<templateExists, pollers, restarts, readySeen>>
  /\ UNCHANGED apiVars

\* delete_template (force, or no running/pending/creating environment)
DeleteTemplate(force) ==
  /\ templateExists
  /\ force \/ env.status \notin {"running", "pending", "creating"}
  /\ templateExists' = FALSE
  /\ last' = Call("delete_template", "none", "ok", "none", NoLimits, env.status)
  /\ UNCHANGED <<env, plat, pollers, restarts, readySeen>>
  /\ UNCHANGED apiVars

Deploy(fault, lim) ==
  /\ env.rec = "live"
  /\ LET d == deploy_environment(env, plat, templateExists, fault, lim) IN
     /\ d.spawn => PollerCount(pollers) < MaxPollers
     /\ env' = d.env
     /\ plat' = d.plat
     /\ pollers' = IF d.spawn THEN Spawn(pollers) ELSE pollers
     /\ readySeen' = IF d.spawn THEN FALSE ELSE readySeen
     /\ last' = Call("deploy", Met(fault, d), IF d.raised THEN "error" ELSE "ok", d.at, QuotaArgs(d, lim), env.status)
  /\ UNCHANGED <<templateExists, restarts>>
  /\ UNCHANGED apiVars

Start(fault, lim) ==
  /\ env.rec = "live"
  /\ LET d == start_environment(env, plat, templateExists, fault, lim) IN
     /\ d.spawn => PollerCount(pollers) < MaxPollers
     /\ env' = d.env
     /\ plat' = d.plat
     /\ pollers' = IF d.spawn THEN Spawn(pollers) ELSE pollers
     /\ readySeen' = IF d.spawn THEN FALSE ELSE readySeen
     /\ last' = Call("start", Met(fault, d), IF d.raised THEN "error" ELSE "ok", d.at, QuotaArgs(d, lim), env.status)
  /\ UNCHANGED <<templateExists, restarts>>
  /\ UNCHANGED apiVars

Stop(fault) ==
  /\ env.rec = "live"
  /\ LET d == stop_environment(env, plat, fault) IN
     /\ env' = d.env
     /\ plat' = d.plat
     /\ last' = Call("stop", fault, IF d.raised THEN "error" ELSE "ok", d.at, NoLimits, env.status)
  /\ UNCHANGED <<templateExists, pollers, restarts, readySeen>>
  /\ UNCHANGED apiVars

\* restart_environment up to asyncio.sleep(10); a raising stop ends the call
RestartBegin(fault) ==
  /\ env.rec = "live"
  /\ restarts < MaxRestarts
  /\ LET d == stop_environment(env, plat, fault) IN
     /\ env' = d.env
     /\ plat' = d.plat
     /\ restarts' = IF d.raised THEN restarts ELSE restarts + 1
     /\ last' = Call("restart_stop", fault, IF d.raised THEN "error" ELSE "ok",
                     d.at, NoLimits, env.status)
  /\ UNCHANGED <<templateExists, pollers, readySeen>>
  /\ UNCHANGED apiVars

\* a second half of restart that provisions without looking for the row
RestartResume_unchecked(fault, lim) ==
  /\ restarts > 0
  /\ restarts' = restarts - 1
  /\ LET d == start_environment(env, plat, templateExists, fault, lim) IN
     /\ d.spawn => PollerCount(pollers) < MaxPollers
     /\ env' = d.env
     /\ plat' = d.plat
     /\ pollers' = IF d.spawn THEN Spawn(pollers) ELSE pollers
     /\ readySeen' = IF d.spawn THEN FALSE ELSE readySeen
     /\ last' = Call("restart_start", Met(fault, d),
                     IF d.raised THEN "error" ELSE "ok", d.at, QuotaArgs(d, lim), env.status)
  /\ UNCHANGED templateExists
  /\ UNCHANGED apiVars

\* restart_environment after the settle delay; start_environment raises
\* "Environment not found" without a write when the row is gone
RestartResume(fault, lim) ==
  /\ restarts > 0
  /\ restarts' = restarts - 1
  /\ IF env.rec = "live"
       THEN LET d == start_environment(env, plat, templateExists, fault, lim) IN
            /\ d.spawn => PollerCount(pollers) < MaxPollers
            /\ env' = d.env
            /\ plat' = d.plat
            /\ pollers' = IF d.spawn THEN Spawn(pollers) ELSE pollers
            /\ readySeen' = IF d.spawn THEN FALSE ELSE readySeen
            /\ last' = Call("restart_start", Met(fault, d),
                            IF d.raised THEN "error" ELSE "ok", d.at, QuotaArgs(d, lim), env.status)
       ELSE /\ last' = Call("restart_start", "none", "error", "not_found", NoLimits, env.status)
            /\ UNCHANGED <<env, plat, pollers, readySeen>>
  /\ UNCHANGED templateExists
  /\ UNCHANGED apiVars

Delete(fault) ==
  /\ env.rec = "live"
  /\ LET d == delete_environment(env, plat, fault) IN
     /\ env' = d.env
     /\ plat' = d.plat
     /\ last' = Call("delete", fault, IF d.raised THEN "error" ELSE "ok", d.at, NoLimits, env.status)
  /\ UNCHANGED <<templateExists, pollers, restarts, readySeen>>
  /\ UNCHANGED apiVars

\* a poller wakes up (or runs for the first time, n = 0)
PollStep(n, fault) ==
  /\ pollers[n] > 0
  /\ LET r == wait_for_deployment_ready(env, plat, n, fault) IN
     /\ env' = r.env
     /\ pollers' = IF r.result = "waiting"
                     THEN [pollers EXCEPT ![n] = @ - 1, ![n + 1] = @ + 1]
                     ELSE [pollers EXCEPT ![n] = @ - 1]
     /\ readySeen' = (readySeen \/ r.result = "ready")
     /\ last' = Call("poll", fault, r.result, "none", NoLimits, env.status)
  /\ UNCHANGED <<templateExists, plat, restarts>>
  /\ UNCHANGED apiVars

\* POST /cleanup/expired while the row exists; fault is the platform failure
\* that meets the delete calls, if the request gets to make them
Sweep(dry_run, fault) ==
  /\ env.rec = "live"
  /\ fault # "none" => (cleanup_selected(env) /\ ~dry_run)
  /\ LET r == cleanup_expired_environments(env, plat, dry_run, fault) IN
     /\ env' = r.env
     /\ plat' = r.plat
     /\ last' = Call("sweep", fault, r.result, IF dry_run THEN "dry_run" ELSE "run",
                     NoLimits, env.status)
  /\ UNCHANGED <<templateExists, pollers, restarts, readySeen>>
  /\ UNCHANGED apiVars

\* the clock moves past the stored expires_at
ClockPassesExpiry ==
  /\ env.rec = "live"
  /\ env.expires = "future"
  /\ env' = [env EXCEPT !.expires = "past"]
  /\ last' = Call("clock", "none", "ok", "none", NoLimits, env.status)
  /\ UNCHANGED <<templateExists, plat, pollers, restarts, readySeen>>
  /\ UNCHANGED apiVars

\* the platform brings the workload's replica up, or loses it
PlatformReadiness ==
  /\ plat.dep
  /\ plat' = [plat EXCEPT !.ready = ~@]
  /\ last' = Call("platform", "none", "ok", "none", NoLimits, env.status)
  /\ UNCHANGED <<env, templateExists, pollers, restarts, readySeen>>
  /\ UNCHANGED apiVars

Next ==
  \/ \E crd_ok \in BOOLEAN : CreateRegularUser(crd_ok)
  \/ \E force \in BOOLEAN : DeleteTemplate(force)
  \/ \E fault \in DeployFaults, lim \in LimitChoices : Deploy(fault, lim)
  \/ \E fault \in StartFaults, lim \in LimitChoices : Start(fault, lim)
  \/ \E fault \in StopFaults : Stop(fault)
  \/ \E fault \in StopFaults : RestartBegin(fault)
  \/ \E fault \in StartFaults, lim \in LimitChoices : RestartResume(fault, lim)
  \/ \E fault \in DeleteFaults : Delete(fault)
  \/ \E n \in 0..NPolls, fault \in PollFaults : PollStep(n, fault)
  \/ PlatformReadiness

Spec == Init /\ [][Next]_vars

\* ------------------------------------------------ expiry sweep on its own
\* The sweep next to the requests that can race with it on one row.  The
\* readiness poll is left to Spec: it writes phases and messages only, and
\* every phase it writes is written by a request here as well.
NextSweep ==
  \/ \E crd_ok \in BOOLEAN : CreateRegularUser(crd_ok)
  \/ \E fault \in DeployFaults, lim \in LimitChoices : Deploy(fault, lim)
  \/ \E fault \in StartFaults, lim \in LimitChoices : Start(fault, lim)
  \/ \E fault \in StopFaults : Stop(fault)
  \/ \E fault \in StopFaults : RestartBegin(fault)
  \/ \E fault \in StartFaults, lim \in LimitChoices : RestartResume(fault, lim)
  \/ \E dry_run \in BOOLEAN, fault \in DeleteFaults : Sweep(dry_run, fault)
  \/ ClockPassesExpiry
  \/ PlatformReadiness

SweepSpec == Init /\ [][NextSweep]_vars

\* ------------------------------------------- teardown calls on their own
\* The three delete calls applied to every platform state a namespace can
\* be in (objects live inside an existing namespace only).
PlatformStates ==
  { P \in [ns : BOOLEAN, quota : {NoQuota} \cup {QuotaHard(l) : l \in LimitChoices},
           dep : BOOLEAN, ready : BOOLEAN, svc : BOOLEAN, ing : BOOLEAN] :
      /\ P.ready => P.dep
      /\ (P.quota.exists \/ P.dep \/ P.svc \/ P.ing) => P.ns }

InitTeardown ==
  /\ env = NoEnv
  /\ templateExists = TRUE
  /\ plat \in PlatformStates
  /\ pollers = [n \in PollSlots |-> 0]
  /\ restarts = 0
  /\ readySeen = FALSE
  /\ last = Call("init", "none", "ok", "none", NoLimits, "none")
  /\ crs = [w \in Wids |-> NoCr]
  /\ cluster = [w \in Wids |-> NoExec]
  /\ resp = NoResp

Answer(r, absent) ==
  IF ~r.ok THEN "raised" ELSE IF absent THEN "not_found" ELSE "deleted"

CallDeleteDeployment(fault) ==
  /\ LET r == delete_deployment(plat, fault) IN
     /\ plat' = r.plat
     /\ last' = Call("delete_deployment", fault, IF r.ok THEN "ok" ELSE "error",
                     Answer(r, ~plat.dep), NoLimits, "none")
  /\ UNCHANGED <<env, templateExists, pollers, restarts, readySeen>>
  /\ UNCHANGED apiVars

CallDeleteService(fault) ==
  /\ LET r == delete_service(plat, fault) IN
     /\ plat' = r.plat
     /\ last' = Call("delete_service", fault, IF r.ok THEN "ok" ELSE "error",
                     Answer(r, ~plat.svc), NoLimits, "none")
  /\ UNCHANGED <<env, templateExists, pollers, restarts, readySeen>>
  /\ UNCHANGED apiVars

CallDeleteNamespace(fault) ==
  /\ LET r == delete_namespace(plat, fault) IN
     /\ plat' = r.plat
     /\ last' = Call("delete_namespace", fault, IF r.ok THEN "ok" ELSE "error",
                     Answer(r, ~plat.ns), NoLimits, "none")
  /\ UNCHANGED <<env, templateExists, pollers, restarts, readySeen>>
  /\ UNCHANGED apiVars

NextTeardown ==
  \/ \E fault \in {"none", "delete_deployment"} : CallDeleteDeployment(fault)
  \/ \E fault \in {"none", "delete_service"} : CallDeleteService(fault)
  \/ \E fault \in {"none", "delete_namespace"} : CallDeleteNamespace(fault)

TeardownSpec == InitTeardown /\ [][NextTeardown]_vars

\* ------------------------------------------- workspace API on its own
\* Requests of the three callers against the custom resources that
\* create_workspace names; handlers make blocking calls only, so each
\* request is one action.
ApiWids == {IdWid(u) : u \in Users}

ScaleFaults == {"none", "scale"}
RemoveFaults == {"none", "delete_namespace", "delete_cr"}

CreateWorkspace(u, fault) ==
  /\ LET r == create_kubedev_environment(crs, IdWid(u), get_current_user(u).name, fault) IN
     /\ crs' = r.crs
     /\ resp' = Answered("create", IdWid(u), u, IF r.ok THEN 200 ELSE 500, FALSE)
  /\ UNCHANGED cluster
  /\ UNCHANGED svcVars

\* the controller that watches the custom resources: it provisions the
\* execution namespace with the workload ide-{wid} and writes
\* status.namespace, once per resource
Reconcile(wid) ==
  /\ crs[wid].exists
  /\ ~crs[wid].ns
  /\ crs' = [crs EXCEPT ![wid].ns = TRUE]
  /\ cluster' = [cluster EXCEPT ![wid] =
                   [objs |-> [NoPlatform EXCEPT !.ns = TRUE, !.dep = TRUE],
                    replicas |-> 1]]
  /\ resp' = Answered("reconcile", wid, "", 0, FALSE)
  /\ UNCHANGED svcVars

StopWorkspace(wid, u, fault) ==
  /\ LET r == stop_workspace(crs, cluster, wid, get_current_user(u), fault) IN
     /\ crs' = r.crs
     /\ cluster' = r.cluster
     /\ resp' = Answered("stop", wid, u, r.code, FALSE)
  /\ UNCHANGED svcVars

StartWorkspace(wid, u, fault) ==
  /\ LET r == start_workspace(crs, cluster, wid, get_current_user(u), fault) IN
     /\ crs' = r.crs
     /\ cluster' = r.cluster
     /\ resp' = Answered("start", wid, u, r.code, FALSE)
  /\ UNCHANGED svcVars

DeleteWorkspace(wid, u, delete_namespace_first, fault) ==
  /\ LET r == delete_workspace(crs, cluster, wid, get_current_user(u),
                               delete_namespace_first, fault) IN
     /\ crs' = r.crs
     /\ cluster' = r.cluster
     /\ resp' = Answered("delete", wid, u, r.code, delete_namespace_first)
  /\ UNCHANGED svcVars

NextApi ==
  \/ \E u \in Users, fault \in BOOLEAN : CreateWorkspace(u, fault)
  \/ \E wid \in ApiWids : Reconcile(wid)
  \/ \E wid \in ApiWids, u \in Users, fault \in ScaleFaults : StopWorkspace(wid, u, fault)
  \/ \E wid \in ApiWids, u \in Users, fault \in ScaleFaults : StartWorkspace(wid, u, fault)
  \/ \E wid \in ApiWids, u \in Users, f \in BOOLEAN, fault \in RemoveFaults :
       DeleteWorkspace(wid, u, f, fault)

ApiSpec == Init /\ [][NextApi]_vars

\* --------------------------------------------- batch creation on its own
\* longest payload.users of a batch request
MaxBatch == 3

RECURSIVE SeqsUpTo(_, _)
SeqsUpTo(S, n) ==
  IF n = 0 THEN {<<>>}
  ELSE LET shorter == SeqsUpTo(S, n - 1) IN
       shorter \cup {Append(q, x) : q \in shorter, x \in S}

AdminBatchCreate(u, users, faults) ==
  /\ LET r == admin_batch_create(crs, get_current_user(u), users, faults) IN
     /\ crs' = r.crs
     /\ resp' = [op |-> "batch", wid |-> "", user |-> u, code |-> r.code,
                 flag |-> FALSE, users |-> users, created |-> r.created,
                 failed |-> r.failed]
  /\ UNCHANGED cluster
  /\ UNCHANGED svcVars

\* the custom resources earlier batch requests can have left behind: any
\* of the three batch names taken or free
BatchStates ==
  { C \in [Wids -> {NoCr} \cup {[exists |-> TRUE, userName |-> u, ns |-> FALSE] : u \in Users}] :
      /\ \A u \in Users : C[IdWid(u)] = NoCr
      /\ \A u \in Users : C[NameWid(u)].exists => C[NameWid(u)].userName = u }

InitBatch ==
  /\ env = NoEnv
  /\ templateExists = TRUE
  /\ plat = NoPlatform
  /\ pollers = [n \in PollSlots |-> 0]
  /\ restarts = 0
  /\ readySeen = FALSE
  /\ last = Call("init", "none", "ok", "none", NoLimits, "none")
  /\ crs \in BatchStates
  /\ cluster = [w \in Wids |-> NoExec]
  /\ resp = NoResp

\* one batch request from each of these states
NextBatch ==
  /\ resp.op = "init"
  /\ \E u \in Users, users \in SeqsUpTo(Users, MaxBatch) :
       \E faults \in SUBSET (1..Len(users)) : AdminBatchCreate(u, users, faults)

BatchSpec == InitBatch /\ [][NextBatch]_vars

\* ================================================================ claims
DeployOps == {"deploy", "start", "restart_start"}

FullyProvisioned(P) == P.ns /\ P.quota.exists /\ P.dep /\ P.svc /\ P.ing

\* C1: a second deploy_environment for a workspace whose namespace, quota,
\* workload, service and route all exist, with no platform failure, returns
\* without error and leaves namespace, quota and route as they were.
C1_SecondDeploySucceeds ==
  [][ ( /\ env.rec = "live"
        /\ templateExists
        /\ FullyProvisioned(plat)
        /\ last'.op = "deploy"
        /\ last'.fault = "none" )
      => ( /\ last'.result = "ok"
           /\ plat'.ns = plat.ns
           /\ plat'.quota = plat.quota
           /\ plat'.ing = plat.ing ) ]_vars

\* C2: a start (plain, or the second half of a restart) that directly follows
\* a successful stop of a Running workspace, with no platform failure and the
\* template in place, ends with the workspace Running.
C2_StopThenStartRuns ==
  [][ ( /\ env.rec = "live"
        /\ templateExists
        /\ last.op \in {"stop", "restart_stop"}
        /\ last.result = "ok"
        /\ last.from = "running"
        /\ last'.op \in {"start", "restart_start"}
        /\ last'.fault = "none" )
      => env'.status = "running" ]_vars

\* C3: no workload exists without a quota in its namespace, and a call in
\* which create_resource_quota failed creates no workload.
C3_QuotaBeforeWorkload ==
  /\ [](plat.dep => plat.quota.exists)
  /\ [][ (last'.op \in DeployOps /\ last'.at = "quota")
         => (plat'.dep = plat.dep /\ last'.result = "error") ]_vars

C3_Witness ==
  /\ last.op = "deploy"
  /\ last.at = "quota"
  /\ last.result = "error"
  /\ plat.ns
  /\ ~plat.quota.exists
  /\ ~plat.dep

\* C4: provisioning runs namespace, quota, workload, service, route in that
\* order and stops at the first step that fails: nothing that belongs to a
\* later step changes, and a route is created only in a call that created
\* the service (and the workload) before it.
C4_StepOrder ==
  [][ last'.op \in DeployOps =>
      /\ last'.at \in {"template", "status", "already_running", "namespace"}
           => plat' = plat
      /\ last'.at = "quota"
           => (plat'.quota = plat.quota /\ plat'.dep = plat.dep
               /\ plat'.svc = plat.svc /\ plat'.ing = plat.ing)
      /\ last'.at = "deployment"
           => (plat'.dep = plat.dep /\ plat'.svc = plat.svc /\ plat'.ing = plat.ing)
      /\ last'.at = "service"
           => (plat'.svc = plat.svc /\ plat'.ing = plat.ing)
      /\ last'.at = "ingress" => plat'.ing = plat.ing
      /\ (plat'.ing /\ ~plat.ing)
           => (/\ plat'.svc /\ ~plat.svc
               /\ plat'.dep /\ ~plat.dep
               /\ plat'.quota.exists
               /\ plat'.ns) ]_vars

C4_Witness ==
  /\ last.op = "deploy"
  /\ last.fault = "service"
  /\ last.at = "service"
  /\ plat.dep
  /\ ~plat.svc
  /\ ~plat.ing

C6_TeardownIdempotent ==
  [][ /\ (last'.op = "delete_deployment" /\ last'.fault = "none" /\ ~plat.dep)
         => (last'.result = "ok" /\ plat' = plat)
      /\ (last'.op = "delete_service" /\ last'.fault = "none" /\ ~plat.svc)
         => (last'.result = "ok" /\ plat' = plat)
      /\ (last'.op = "delete_namespace" /\ last'.fault = "none" /\ ~plat.ns)
         => (last'.result = "ok" /\ plat' = plat) ]_vars

C6_Witness ==
  /\ last.op = "delete_deployment"
  /\ last.at = "not_found"
  /\ last.result = "ok"
  /\ plat.ns
  /\ plat.svc

\* C7: a provisioning step that fails (in deploy_environment, also when
\* start_environment runs it, or the resource creation of
\* create_regular_user) leaves the workspace in phase Error, and no call
\* ever stores Pending in an existing row.
C7_FailureIsErrorNeverPending ==
  /\ []( ( /\ last.op \in DeployOps
           /\ last.at \in {"namespace", "quota", "deployment", "service", "ingress"} )
         => (last.result = "error" /\ env.status = "error") )
  /\ []( (last.op = "create_regular_user" /\ last.fault = "crd")
         => env.status = "error" )
  /\ [][ env.rec = "live" => env'.status # "pending" ]_vars

C7_Witness ==
  /\ last.op = "deploy"
  /\ last.at = "ingress"
  /\ last.result = "error"
  /\ env.status = "error"
  /\ env.msg = "Deployment failed: Failed to create ingress"

\* C8: right after a deploy_environment that returned, the phase is Running
\* only if a readiness poll has seen ready_replicas >= 1.
C8_RunningOnlyAfterReady ==
  (last.op = "deploy" /\ last.result = "ok" /\ env.status = "running") => readySeen

TimeoutMessage == "Deployment timeout - environment did not become ready"

\* C9: a poller never sleeps more often than the bounded wait allows, and the
\* pass that finds the wait exceeded stores phase Error with the timeout
\* message in the row.
C9_ReadinessTimeout ==
  /\ [](\A n \in PollSlots : pollers[n] > 0 => n * PollInterval <= MaxWaitTime)
  /\ []( (last.op = "poll" /\ last.result = "timeout" /\ env.rec = "live")
         => (env.status = "error" /\ env.msg = TimeoutMessage) )

C9_Witness ==
  /\ last.op = "poll"
  /\ last.result = "timeout"
  /\ env.status = "error"
  /\ env.msg = TimeoutMessage
  /\ ~readySeen
  /\ PollerCount(pollers) = 0

\* C10: after a status check that failed inside the poll loop the poller is
\* still alive to poll again, and the failed check does not move the
\* workspace to Error.
C10_FailedCheckIsRetried ==
  (last.op = "poll" /\ last.result = "check_failed" /\ env.rec = "live")
    => ( /\ PollerCount(pollers) > 0
         /\ last.from # "error" => env.status # "error" )

C17_ServiceStillAttempted ==
  [][ (last'.op = "delete" /\ last'.fault = "delete_deployment" /\ plat.svc)
        => ~plat'.svc ]_vars

PlatformErrors ==
  { "ApiException", "Failed to create namespace", "Failed to create resource quota",
    "Failed to create deployment", "Failed to create service",
    "Failed to create ingress", "Failed to delete deployment",
    "Failed to delete service", "Failed to get deployment status",
    "Template not found" }

FailurePrefixes ==
  { "Deployment failed: ", "Failed to start: ", "Failed to stop: ",
    "Failed to delete environment: " }

\* C18: when a deploy, start, stop or delete call on an existing row has
\* raised, the row is in phase Error with a message that carries the
\* failure text.
C18_FailureOnRecord ==
  ( /\ last.op \in {"deploy", "start", "stop", "delete", "restart_stop", "restart_start"}
    /\ last.result = "error"
    /\ last.at # "not_found" )
    => ( /\ env.rec = "live"
         /\ env.status = "error"
         /\ \E pre \in FailurePrefixes, e \in PlatformErrors : env.msg = pre \o e )

MutatingOps == {"stop", "start", "delete"}

\* C12: a stop, start or delete request for an existing workspace by a
\* caller who is neither its owner nor an admin is answered 403 Forbidden,
\* whatever state the workspace is in, and changes neither a custom
\* resource nor a namespace or workload.
C12_ForbiddenBeforeMutation ==
  [][ \A w \in ApiWids :
        ( /\ resp'.op \in MutatingOps
          /\ resp'.wid = w
          /\ crs[w].exists
          /\ crs[w].userName # resp'.user
          /\ get_current_user(resp'.user).role # "admin" )
        => (resp'.code = 403 /\ crs' = crs /\ cluster' = cluster) ]_vars

\* a provisioned workspace that has survived a stranger's delete request
C12_Witness ==
  /\ resp.op = "delete"
  /\ resp.flag
  /\ resp.code = 403
  /\ resp.user = "test"
  /\ resp.wid = IdWid("dev")
  /\ crs[resp.wid].exists
  /\ crs[resp.wid].ns
  /\ cluster[resp.wid].objs.ns
  /\ cluster[resp.wid].replicas = 1

\* C13: a stop, start or delete request by a caller with the admin role is
\* never answered 403 Forbidden, also for a workspace of another user.
C13_AdminMayMutate ==
  (resp.op \in MutatingOps /\ get_current_user(resp.user).role = "admin")
    => resp.code # 403

Occ(q, x) == Cardinality({i \in 1..Len(q) : q[i] = x})

\* C14: a batch request by an admin tries every entry of the user list: no
\* failure ends the loop, each entry lands in exactly one of the two result
\* lists (created + failed = number of entries), every entry in created has
\* its resource made by this request, and an entry fails only if its own
\* create call failed.
C14_BatchIsolation ==
  [][ (resp'.op = "batch" /\ resp'.code = 200)
        => ( /\ Len(resp'.created) + Len(resp'.failed) = Len(resp'.users)
             /\ \A u \in Users :
                  /\ Occ(resp'.users, u)
                       = Occ(resp'.created, NameWid(u)) + Occ(resp'.failed, u)
                  /\ Occ(resp'.created, NameWid(u)) > 0
                       => (crs'[NameWid(u)].exists /\ ~crs[NameWid(u)].exists)
                  /\ Occ(resp'.created, NameWid(u)) <= 1
                  /\ (Occ(resp'.users, u) > 0 /\ Occ(resp'.failed, u) = 0)
                       => crs'[NameWid(u)].exists ) ]_vars

\* three distinct users, the first fails, the two after it are created
C14_Witness ==
  /\ resp.op = "batch"
  /\ resp.code = 200
  /\ Len(resp.users) = 3
  /\ Cardinality({resp.users[i] : i \in 1..3}) = 3
  /\ resp.failed = <<resp.users[1]>>
  /\ resp.created = <<NameWid(resp.users[2]), NameWid(resp.users[3])>>

\* C16: delete_workspace by the owner deletes the execution namespace only
\* when delete_namespace_first is true and status.namespace is set, and then
\* before the custom resource (which stays when that deletion raises); with
\* the flag false the namespace and what is in it are left as they were and
\* the custom resource is removed all the same.
C16_NamespaceByFlag ==
  [][ \A w \in ApiWids :
        ( /\ resp'.op = "delete"
          /\ resp'.wid = w
          /\ crs[w].exists
          /\ crs[w].userName = resp'.user )
        => ( /\ cluster'[w] # cluster[w] => (resp'.flag /\ crs[w].ns)
             /\ (resp'.flag /\ crs[w].ns /\ ~crs'[w].exists) => ~cluster'[w].objs.ns
             /\ (resp'.flag /\ crs[w].ns /\ cluster'[w].objs.ns) => resp'.code = 500
             /\ ~resp'.flag => cluster' = cluster
             /\ (~resp'.flag /\ resp'.code = 200) => ~crs'[w].exists
             /\ \A v \in Wids \ {w} : cluster'[v] = cluster[v] /\ crs'[v] = crs[v] ) ]_vars

\* the custom resource is gone, its namespace and workload are still there
C16_Witness ==
  /\ resp.op = "delete"
  /\ ~resp.flag
  /\ resp.code = 200
  /\ ~crs[resp.wid].exists
  /\ cluster[resp.wid].objs.ns
  /\ cluster[resp.wid].objs.dep

SweepEligible(E) ==
  E.rec = "live" /\ E.expires = "past" /\ E.status \in {"running", "stopped"}

DeleteInsideRestart(E, P, f) ==
  LET s == stop_environment(E, P, "none")
      d == delete_environment(s.env, s.plat, f)
  IN <<d.env, d.plat>>

DeleteBeforeRestart(E, P, f) ==
  LET d == delete_environment(E, P, f) IN
  IF d.env.rec # "live" THEN <<d.env, d.plat>>
  ELSE LET s == stop_environment(d.env, d.plat, "none") IN <<s.env, s.plat>>

\* C20: the sweep's delete_environment next to start, stop and restart on
\* the same row: no workload or service exists once the record is removed,
\* no request that ends after the removal changes row or platform, and a
\* delete that falls into restart's settle delay leaves the state that the
\* serial order delete, restart leaves.
C20_SweepSerializable ==
  /\ [](env.rec = "deleted" => (~plat.dep /\ ~plat.svc))
  /\ [][ env.rec = "deleted" => (env' = env /\ plat' = plat) ]_vars
  /\ [](env.rec = "live" =>
          \A f \in DeleteFaults :
            DeleteInsideRestart(env, plat, f) = DeleteBeforeRestart(env, plat, f))

\* restart's start half ran after the sweep had removed the row
C20_Witness ==
  /\ last.op = "restart_start"
  /\ last.at = "not_found"
  /\ last.result = "error"
  /\ env.rec = "deleted"
  /\ ~plat.dep
  /\ ~plat.svc

\* the step went through the try block of deploy_environment, which stores
\* CREATING before its first create call
ThroughCreating ==
  /\ last'.op \in DeployOps
  /\ \/ last'.at \in {"namespace", "quota", "deployment", "service", "ingress"}
     \/ (last'.result = "ok" /\ plat'.dep /\ ~plat.dep)

\* C24: every phase a deploy, start, stop or restart call or the readiness
\* poll stores follows the phase before it by a transition of the state
\* machine (the CREATING that deploy_environment stores on its way counted).
C24_OnlySpecifiedTransitions ==
  [][ LET AllowedTransitions ==
            { <<"pending", "creating">>, <<"creating", "running">>,
              <<"running", "stopped">>, <<"stopped", "creating">>,
              <<"stopped", "running">>, <<"running", "creating">> }
            \cup { <<p, "error">> :
                     p \in {"pending", "creating", "running", "stopped", "error"} }
          Allowed(p, q) == p = q \/ <<p, q>> \in AllowedTransitions
          mid == IF ThroughCreating THEN "creating" ELSE env.status
      IN ( /\ last'.op \in DeployOps \cup {"stop", "restart_stop", "poll"}
           /\ env.rec = "live"
           /\ env'.rec = "live" )
           => (Allowed(env.status, mid) /\ Allowed(mid, env'.status)) ]_vars

\* C25: a stop_environment that succeeds on a Running workspace leaves
\* neither workload nor service, keeps namespace and quota, and stores
\* phase Stopped.
C25_StopPartialTeardown ==
  [][ (last'.op = "stop" /\ last'.result = "ok" /\ env.status = "running")
        => ( /\ ~plat'.dep
             /\ ~plat'.svc
             /\ plat'.ns = plat.ns
             /\ plat'.quota = plat.quota
             /\ env'.status = "stopped" ) ]_vars

\* C27: in a quota that create_resource_quota has applied, twice the
\* request ceiling is the limit ceiling, for cpu and for memory.
C27_RequestsAreHalfLimits ==
  plat.quota.exists
    => ( /\ 2 * plat.quota.requests_cpu_x10 = 10 * plat.quota.limits_cpu
         /\ 2 * plat.quota.requests_memory = plat.quota.limits_memory )

C30_RunningHasDependents ==
  (env.rec = "live" /\ env.status = "running")
    => (plat.dep /\ plat.svc /\ plat.ing /\ env.url \notin {None, ""})

NamespaceRemoved ==
  /\ env.rec = "live"
  /\ plat.ns
  /\ plat' = delete_namespace(plat, "none").plat
  /\ last' = Call("namespace_removed", "none", "ok", "none", NoLimits, env.status)
  /\ UNCHANGED <<env, templateExists, pollers, restarts, readySeen>>
  /\ UNCHANGED apiVars

\* the service's requests on a cluster whose namespaces can be removed
NextExpiry ==
  \/ \E crd_ok \in BOOLEAN : CreateRegularUser(crd_ok)
  \/ \E fault \in DeployFaults, lim \in LimitChoices : Deploy(fault, lim)
  \/ \E fault \in StartFaults, lim \in LimitChoices : Start(fault, lim)
  \/ \E fault \in StopFaults : Stop(fault)
  \/ \E fault \in StopFaults : RestartBegin(fault)
  \/ \E fault \in StartFaults, lim \in LimitChoices : RestartResume(fault, lim)
  \/ ClockPassesExpiry
  \/ NamespaceRemoved

ExpirySpec == Init /\ [][NextExpiry]_vars

LiveLookups ==
  {"raise", "no_ide_url", "ide_url", "local_nodeport", "local_no_nodeport"}

IdeUrl      == "http://ide.example"
LocalIdeUrl == "http://ide.kubdev.local"
NodePortUrl == "http://192.168.49.2:30080"

\* the address after the lookup; a falsy ideUrl leaves the stored one
live_access_url(stored, live) ==
  CASE live = "ide_url"           -> IdeUrl
    [] live = "local_nodeport"    -> NodePortUrl
    [] live = "local_no_nodeport" -> LocalIdeUrl
    [] OTHER                      -> stored

\* found: the view holds the workspace; phase: the phase it reports for it
View(op, code, found, status, phase, access_url, can_access) ==
  [op |-> op, code |-> code, found |-> found, status |-> status,
   phase |-> phase, access_url |-> access_url, can_access |-> can_access]

get_my_environment(E, live) ==
  IF E.rec # "live"
    THEN View("get_my_environment", 200, FALSE, "not_found", "none", None, FALSE)
    ELSE
      LET access_url == IF E.status = "running"
                          THEN live_access_url(E.url, live)
                          ELSE E.url
          can_access == E.status = "running" /\ access_url # None
      IN View("get_my_environment", 200, TRUE,
              IF can_access THEN "ready" ELSE E.status,
              E.status, access_url, can_access)

\* the namespace names with 'kubdev' in them
KubdevNamespaces == {"kubdev-users"}

\* get_all_environments_status: one entry per pod of a namespace whose name
\* contains 'kubdev', with the pod's phase
get_all_environments_status(E, P) ==
  IF P.ns /\ P.dep /\ E.namespace \in KubdevNamespaces
    THEN {[namespace |-> E.namespace,
           status |-> IF P.ready THEN "Running" ELSE "Pending"]}
    ELSE {}

\* get_all_environments_admin without filters: one entry per live pod, the
\* row matched by namespace; "list": list_namespace raised
get_all_environments_admin(E, P, fault) ==
  IF fault = "list"
    THEN View("get_all_environments_admin", 500, FALSE, "none", "none", None, FALSE)
    ELSE
      LET k8s_environments == get_all_environments_status(E, P) IN
      IF k8s_environments = {}
        THEN View("get_all_environments_admin", 200, FALSE, "none", "none", None, FALSE)
        ELSE LET k8s_env == CHOOSE k \in k8s_environments : TRUE IN
             View("get_all_environments_admin", 200,
                  E.rec = "live" /\ E.namespace = k8s_env.namespace,
                  k8s_env.status, k8s_env.status, None, FALSE)

ListFaults == {"none", "list"}

GetMyEnvironment(live) ==
  /\ resp.op = "init"
  /\ resp' = get_my_environment(env, live)
  /\ last' = Call("get_my_environment", live, "ok", "none", NoLimits, env.status)
  /\ UNCHANGED <<env, templateExists, plat, pollers, restarts, readySeen>>
  /\ UNCHANGED <<crs, cluster>>

GetAllEnvironmentsAdmin(fault) ==
  /\ resp.op = "init"
  /\ resp' = get_all_environments_admin(env, plat, fault)
  /\ last' = Call("get_all_environments_admin", fault,
                  IF fault = "none" THEN "ok" ELSE "error", "none", NoLimits,
                  env.status)
  /\ UNCHANGED <<env, templateExists, plat, pollers, restarts, readySeen>>
  /\ UNCHANGED <<crs, cluster>>

Phases == {"pending", "creating", "running", "stopped", "error"}

\* The rows a view can meet.  access_url is an Optional[str] column: None,
\* the address deploy_environment stored, or an empty string left by
\* another writer of the table.
ViewRows ==
  {NoEnv} \cup
  { [inserted_row EXCEPT !.status = s, !.url = a, !.namespace = n] :
      s \in Phases, a \in {None, "", IngressUrl}, n \in {"user-1", "kubdev-users"} }

\* the platform states deploy_environment and stop_environment leave
ViewPlatforms ==
  LET P1 == create_namespace(NoPlatform, "none").plat
      P2 == create_resource_quota(P1, "none", CHOOSE l \in LimitChoices : TRUE).plat
      P3 == create_deployment(P2, "none").plat
      P4 == create_service(P3, "none").plat
      P5 == create_ingress(P4, "none").plat
  IN {NoPlatform, P1, P2, P3, P4, P5, [P5 EXCEPT !.ready = TRUE],
      delete_deployment(P5, "none").plat}

InitView ==
  /\ env \in ViewRows
  /\ plat \in ViewPlatforms
  /\ templateExists = TRUE
  /\ pollers = [n \in PollSlots |-> 0]
  /\ restarts = 0
  /\ readySeen = FALSE
  /\ last = Call("init", "none", "ok", "none", NoLimits, "none")
  /\ crs = [w \in Wids |-> NoCr]
  /\ cluster = [w \in Wids |-> NoExec]
  /\ resp = NoResp

NextView ==
  \/ \E live \in LiveLookups : GetMyEnvironment(live)
  \/ \E fault \in ListFaults : GetAllEnvironmentsAdmin(fault)

ViewSpec == InitView /\ [][NextView]_vars

C22_ViewKeepsPersistedRecord ==
  ( /\ resp.op \in {"get_my_environment", "get_all_environments_admin"}
    /\ env.rec = "live"
    /\ ~plat.dep \/ last.fault \in {"raise", "list"} )
    => ( /\ resp.code = 200
         /\ resp.found
         /\ resp.phase = env.status )

====
